---------------------------- MODULE Spec2Model ----------------------------
(***************************************************************************)
(* Model of setup_storage() in dev/setup_storage.py: the storage-location  *)
(* probe (/data, else ~/persistent_data), the creation of the five         *)
(* subdirectories and the write of config.txt, over an explicit            *)
(* filesystem.  A path is the sequence of its components; the filesystem   *)
(* maps each path to what is there ("absent", "dir" or "file"); each       *)
(* system call either succeeds, or raises the exception the filesystem     *)
(* state determines, or raises an injected non-permission OSError          *)
(* (ENOSPC, EIO).                                                          *)
(***************************************************************************)
EXTENDS Naturals, Sequences, FiniteSets, TLC

VARIABLES
    fs,          \* path -> "absent" | "dir" | "file"
    perm,        \* directory (volume, fallback, home) -> "rw" | "ro" | "noDelete"
    content,     \* config.txt path -> the lines written to it
    clock,       \* wall clock, in seconds
    faults,      \* non-permission I/O faults the environment may still inject
    runs,        \* calls of setup_storage() made so far
    pc,          \* position inside setup_storage()
    base_path,   \* local variable base_path (NoPath while unassigned)
    i,           \* position in the loop being executed
    touchRes,    \* outcome of test_file.touch() in this run
    unlinkRes,   \* outcome of test_file.unlink() in this run
    touches,     \* calls of test_file.touch() in this run
    unlinks,     \* calls of test_file.unlink() in this run
    error,       \* exception that left setup_storage(), "none" if none
    errorAt,     \* statement that raised it
    createdByProbe, \* the .write_test present was created by touch()
    start,       \* filesystem at the call of the current run
    prev         \* how the previous run ended

vars == <<fs, perm, content, clock, faults, runs, pc, base_path, i, touchRes,
          unlinkRes, touches, unlinks, error, errorAt, createdByProbe, start,
          prev>>

---------------------------------------------------------------------------
\* Bounds of the model.
MaxRuns == 2
MaxClock == 1
MaxFaults == 1

---------------------------------------------------------------------------
\* Paths.
NoPath == <<>>

Join(path, name) == Append(path, name)

volume_path == <<"data">>

Home == <<"home", "u">>

fallback_path == Join(Home, "persistent_data")

Roots == {volume_path, fallback_path}

\* Keys of the dict "directories", in insertion order.
Names == <<"app_data", "uploads", "logs", "cache", "agent_memory">>

NameSet == {Names[n] : n \in 1..Len(Names)}

\* Variant: the dict built from the fallback path whatever base is.
directories_under_fallback(base) ==
    [n \in NameSet |-> Join(fallback_path, n)]

directories(base) == [n \in NameSet |-> Join(base, n)]

test_file == Join(volume_path, ".write_test")

config(base) == Join(base, "config.txt")

Paths ==
    Roots \cup {test_file}
          \cup {Join(r, n) : r \in Roots, n \in NameSet}
          \cup {config(r) : r \in Roots}

Parent(path) == SubSeq(path, 1, Len(path) - 1)

\* Variant: the existence test left out, every path taken to exist.
Exists_always(path) == path \in Paths

Exists(path) == fs[path] # "absent"

\* The directory whose permission decides the creation of an entry in dir.
PermOf(dir) == IF dir = Home THEN perm.home
               ELSE IF dir = volume_path THEN perm.volume
               ELSE perm.fallback


---------------------------------------------------------------------------
\* System calls, as functions of the filesystem f they run on.  Each returns
\* the exception raised ("none" if none) and the filesystem it leaves.
\* inject: the environment fails this call with a non-permission OSError.

KindIn(f, path) == IF path = Home THEN "dir" ELSE f[path]

\* errno of os.mkdir(path), as the kernel orders its checks.
os_mkdir_error(f, path, inject) ==
    IF KindIn(f, Parent(path)) = "absent" THEN "FileNotFoundError"
    ELSE IF KindIn(f, Parent(path)) = "file" THEN "NotADirectoryError"
    ELSE IF f[path] # "absent" THEN "FileExistsError"
    ELSE IF PermOf(Parent(path)) = "ro" THEN "PermissionError"
    ELSE IF inject THEN "OSError"
    ELSE "none"

\* Variant: exist_ok accepts whatever is at the path, directory or not.
RECURSIVE mkdir_accepts_file(_, _, _, _, _)
mkdir_accepts_file(f, path, parents, exist_ok, inject) ==
    LET e == os_mkdir_error(f, path, inject) IN
    IF e = "none" THEN [error |-> "none", fs |-> [f EXCEPT ![path] = "dir"]]
    ELSE IF e = "FileNotFoundError" THEN
        IF ~parents \/ Parent(path) = Home THEN [error |-> e, fs |-> f]
        ELSE LET up == mkdir_accepts_file(f, Parent(path), TRUE, TRUE, inject) IN
             IF up.error # "none" THEN up
             ELSE mkdir_accepts_file(up.fs, path, FALSE, exist_ok, FALSE)
    ELSE IF ~exist_ok \/ e # "FileExistsError" THEN [error |-> e, fs |-> f]
    ELSE [error |-> "none", fs |-> f]

\* pathlib.Path.mkdir(parents, exist_ok).
RECURSIVE mkdir(_, _, _, _, _)
mkdir(f, path, parents, exist_ok, inject) ==
    LET e == os_mkdir_error(f, path, inject) IN
    IF e = "none" THEN [error |-> "none", fs |-> [f EXCEPT ![path] = "dir"]]
    ELSE IF e = "FileNotFoundError" THEN
        IF ~parents \/ Parent(path) = Home THEN [error |-> e, fs |-> f]
        ELSE LET up == mkdir(f, Parent(path), TRUE, TRUE, inject) IN
             IF up.error # "none" THEN up
             ELSE mkdir(up.fs, path, FALSE, exist_ok, FALSE)
    ELSE IF ~exist_ok \/ f[path] # "dir" THEN [error |-> e, fs |-> f]
    ELSE [error |-> "none", fs |-> f]

\* pathlib.Path.touch(): utime on an existing file, else open(O_CREAT).
touch(f, path, inject) ==
    IF KindIn(f, Parent(path)) = "absent"
    THEN [error |-> "FileNotFoundError", fs |-> f]
    ELSE IF KindIn(f, Parent(path)) = "file"
    THEN [error |-> "NotADirectoryError", fs |-> f]
    ELSE IF PermOf(Parent(path)) = "ro"
    THEN [error |-> "PermissionError", fs |-> f]
    ELSE IF inject THEN [error |-> "OSError", fs |-> f]
    ELSE [error |-> "none", fs |-> [f EXCEPT ![path] = "file"]]

\* Variant: the call returns without removing the file.
unlink_keeps_file(f, path, inject) ==
    IF f[path] = "absent" THEN [error |-> "FileNotFoundError", fs |-> f]
    ELSE IF PermOf(Parent(path)) # "rw"
    THEN [error |-> "PermissionError", fs |-> f]
    ELSE IF inject THEN [error |-> "OSError", fs |-> f]
    ELSE [error |-> "none", fs |-> f]

\* pathlib.Path.unlink().
unlink(f, path, inject) ==
    IF f[path] = "absent" THEN [error |-> "FileNotFoundError", fs |-> f]
    ELSE IF PermOf(Parent(path)) # "rw"
    THEN [error |-> "PermissionError", fs |-> f]
    ELSE IF inject THEN [error |-> "OSError", fs |-> f]
    ELSE [error |-> "none", fs |-> [f EXCEPT ![path] = "absent"]]

\* open(path, 'w'): creates the file if absent and truncates it.
open_w(f, c, path, inject) ==
    IF PermOf(Parent(path)) = "ro"
    THEN [error |-> "PermissionError", fs |-> f, content |-> c]
    ELSE IF inject THEN [error |-> "OSError", fs |-> f, content |-> c]
    ELSE [error |-> "none",
          fs |-> [f EXCEPT ![path] = "file"],
          content |-> [c EXCEPT ![path] = <<>>]]

\* time.strftime('%Y-%m-%d %H:%M:%S') of the second t.
strftime(t) == <<"date", ToString(t)>>

\* The k-th f.write() of the with-block: a (label, value) pair, or the
\* empty line of f.write("\n").
BlankLine == <<>>

NumLines == 3 + Len(Names)

\* Variant: the timestamp written before the base path.
ManifestLine_timestamp_first(k, base, t) ==
    IF k = 1 THEN <<"Created", strftime(t)>>
    ELSE IF k = 2 THEN <<"Storage Base", base>>
    ELSE IF k = 3 THEN BlankLine
    ELSE <<Names[k - 3], directories(base)[Names[k - 3]]>>

ManifestLine(k, base, t) ==
    IF k = 1 THEN <<"Storage Base", base>>
    ELSE IF k = 2 THEN <<"Created", strftime(t)>>
    ELSE IF k = 3 THEN BlankLine
    ELSE <<Names[k - 3], directories(base)[Names[k - 3]]>>

Manifest(base, t) == [k \in 1..NumLines |-> ManifestLine(k, base, t)]

\* Variant: except FileNotFoundError.
IsPermissionError_wrong_class(e) == e = "FileNotFoundError"

\* Variant: except OSError, which catches every exception of the probe.
IsPermissionError_any_oserror(e) == e # "none"

\* The except clause of the probe: which exceptions it catches.
IsPermissionError(e) == e = "PermissionError"

---------------------------------------------------------------------------
\* Initial filesystems: each root is absent, a regular file, or a directory
\* that is empty, already holds the five subdirectories, or has a regular
\* file where the subdirectory logs is to go.

NoEntries == [n \in NameSet |-> "absent"]

InitLayouts ==
    { NoEntries,
      [n \in NameSet |-> "dir"],
      [NoEntries EXCEPT !["logs"] = "file"] }

InitFs(vk, fk, vl, fl) ==
    [p \in Paths |->
        IF p = volume_path THEN vk
        ELSE IF p = fallback_path THEN fk
        ELSE IF p \in {test_file, config(volume_path), config(fallback_path)}
        THEN "absent"
        ELSE IF Parent(p) = volume_path THEN vl[p[Len(p)]]
        ELSE fl[p[Len(p)]]]

Init ==
    /\ \E vk \in {"absent", "dir", "file"}, fk \in {"absent", "dir", "file"} :
       \E vl \in InitLayouts, fl \in InitLayouts :
          /\ vk # "dir" => vl = NoEntries
          /\ fk # "dir" => fl = NoEntries
          /\ fs = InitFs(vk, fk, vl, fl)
          /\ perm \in [volume : IF vk = "dir" THEN {"rw", "ro", "noDelete"}
                                ELSE {"rw"},
                       fallback : IF fk = "dir" THEN {"rw", "ro"} ELSE {"rw"},
                       home : IF fk = "absent" THEN {"rw", "ro"} ELSE {"rw"}]
    /\ content = [p \in {config(r) : r \in Roots} |-> <<>>]
    /\ clock = 0
    /\ faults = MaxFaults
    /\ runs = 0
    /\ pc = "idle"
    /\ base_path = NoPath
    /\ i = 0
    /\ touchRes = "notrun"
    /\ unlinkRes = "notrun"
    /\ touches = 0
    /\ unlinks = 0
    /\ error = "none"
    /\ errorAt = "none"
    /\ createdByProbe = FALSE
    /\ start = [fs |-> fs, content |-> content]
    /\ prev = [pc |-> "idle", base_path |-> NoPath]

---------------------------------------------------------------------------
\* The environment may inject a fault into a call only while it has one
\* left, and an injected fault is counted only when it is what the call
\* raised.
CanInject(inject) == inject => faults > 0

Charge(inject) == faults' = IF inject THEN faults - 1 ELSE faults

\* An exception leaves setup_storage().
Raise(e, stmt) ==
    /\ pc' = "failed"
    /\ error' = e
    /\ errorAt' = stmt

\* Entry to STEP 5 with base_path assigned.
EnterMkdir(base) ==
    /\ base_path' = base
    /\ pc' = "mkdir"
    /\ i' = 1

\* try/except around the probe: PermissionError selects the fallback,
\* anything else propagates.
ProbeRaised(e, stmt) ==
    IF IsPermissionError(e)
    THEN /\ EnterMkdir(fallback_path)
         /\ UNCHANGED <<error, errorAt>>
    ELSE /\ Raise(e, stmt)
         /\ UNCHANGED <<base_path, i>>

\* Call of setup_storage() and the test volume_path.exists().
Start ==
    /\ pc \in {"idle", "done", "failed"}
    /\ runs < MaxRuns
    /\ runs' = runs + 1
    /\ start' = [fs |-> fs, content |-> content]
    /\ prev' = [pc |-> pc, base_path |-> base_path]
    /\ touchRes' = "notrun"
    /\ unlinkRes' = "notrun"
    /\ touches' = 0
    /\ unlinks' = 0
    /\ error' = "none"
    /\ errorAt' = "none"
    /\ IF Exists(volume_path)
       THEN /\ pc' = "touch"
            /\ base_path' = NoPath
            /\ i' = 0
       ELSE EnterMkdir(fallback_path)
    /\ UNCHANGED <<fs, perm, content, clock, faults, createdByProbe>>

\* test_file.touch()
Touch ==
    /\ pc = "touch"
    /\ \E inject \in BOOLEAN :
       LET r == touch(fs, test_file, inject) IN
       /\ CanInject(inject)
       /\ inject => r.error = "OSError"
       /\ Charge(inject)
       /\ fs' = r.fs
       /\ touchRes' = r.error
       /\ touches' = touches + 1
       /\ createdByProbe' = IF r.error = "none" /\ ~Exists(test_file)
                            THEN TRUE ELSE createdByProbe
       /\ IF r.error = "none"
          THEN /\ pc' = "unlink"
               /\ UNCHANGED <<base_path, i, error, errorAt>>
          ELSE ProbeRaised(r.error, "touch")
    /\ UNCHANGED <<perm, content, clock, runs, unlinkRes, unlinks, start, prev>>

\* test_file.unlink(); base_path = volume_path
Unlink ==
    /\ pc = "unlink"
    /\ \E inject \in BOOLEAN :
       LET r == unlink(fs, test_file, inject) IN
       /\ CanInject(inject)
       /\ inject => r.error = "OSError"
       /\ Charge(inject)
       /\ fs' = r.fs
       /\ unlinkRes' = r.error
       /\ unlinks' = unlinks + 1
       /\ createdByProbe' = IF r.error = "none" THEN FALSE ELSE createdByProbe
       /\ IF r.error = "none"
          THEN /\ EnterMkdir(volume_path)
               /\ UNCHANGED <<error, errorAt>>
          ELSE ProbeRaised(r.error, "unlink")
    /\ UNCHANGED <<perm, content, clock, runs, touchRes, touches, start, prev>>

\* One iteration of the loop over directories.items(), calling
\* path.mkdir(parents=True, exist_ok=exist_ok); propagate: an exception of
\* mkdir leaves the function (nothing catches it).
MkdirStep(exist_ok, propagate) ==
    /\ pc = "mkdir"
    /\ \E inject \in BOOLEAN :
       LET r == mkdir(fs, directories(base_path)[Names[i]], TRUE, exist_ok, inject) IN
       /\ CanInject(inject)
       /\ inject => r.error = "OSError"
       /\ Charge(inject)
       /\ fs' = r.fs
       /\ IF r.error = "none" \/ ~propagate
          THEN /\ IF i < Len(Names)
                  THEN pc' = "mkdir" /\ i' = i + 1
                  ELSE pc' = "open" /\ i' = 0
               /\ UNCHANGED <<error, errorAt>>
          ELSE /\ Raise(r.error, "mkdir")
               /\ UNCHANGED i
    /\ UNCHANGED <<perm, content, clock, runs, base_path, touchRes, unlinkRes,
                   touches, unlinks, createdByProbe, start, prev>>

\* Variant: mkdir called without exist_ok=True.
Mkdir_without_exist_ok == MkdirStep(FALSE, TRUE)

\* Variant: the exception of mkdir swallowed, the loop going on.
Mkdir_swallows_error == MkdirStep(TRUE, FALSE)

\* path.mkdir(parents=True, exist_ok=True), uncaught.
Mkdir == MkdirStep(TRUE, TRUE)

\* with open(config, 'w') as f:
OpenManifest ==
    /\ pc = "open"
    /\ \E inject \in BOOLEAN :
       LET r == open_w(fs, content, config(base_path), inject) IN
       /\ CanInject(inject)
       /\ inject => r.error = "OSError"
       /\ Charge(inject)
       /\ fs' = r.fs
       /\ content' = r.content
       /\ IF r.error = "none"
          THEN /\ pc' = "write"
               /\ i' = 1
               /\ UNCHANGED <<error, errorAt>>
          ELSE /\ Raise(r.error, "open")
               /\ UNCHANGED i
    /\ UNCHANGED <<perm, clock, runs, base_path, touchRes, unlinkRes,
                   touches, unlinks, createdByProbe, start, prev>>

\* The i-th f.write() of the with-block; the second reads the clock, which
\* may have advanced.  A failed write leaves the file as written so far.
WriteLine ==
    /\ pc = "write"
    /\ \E inject \in BOOLEAN, t \in clock..MaxClock :
       /\ CanInject(inject)
       /\ Charge(inject)
       /\ t <= clock + 1
       /\ (i # 2 \/ inject) => t = clock
       /\ clock' = t
       /\ IF inject
          THEN /\ Raise("OSError", "write")
               /\ UNCHANGED <<content, i>>
          ELSE /\ content' = [content EXCEPT ![config(base_path)] =
                                 Append(@, ManifestLine(i, base_path, t))]
               /\ IF i < NumLines
                  THEN pc' = "write" /\ i' = i + 1
                  ELSE pc' = "return" /\ i' = 0
               /\ UNCHANGED <<error, errorAt>>
    /\ UNCHANGED <<fs, perm, runs, base_path, touchRes, unlinkRes,
                   touches, unlinks, createdByProbe, start, prev>>

\* return base_path, directories
Return ==
    /\ pc = "return"
    /\ pc' = "done"
    /\ UNCHANGED <<fs, perm, content, clock, faults, runs, base_path, i,
                   touchRes, unlinkRes, touches, unlinks, error, errorAt,
                   createdByProbe,
                   start, prev>>

Next ==
    \/ Start
    \/ Touch
    \/ Unlink
    \/ Mkdir
    \/ OpenManifest
    \/ WriteLine
    \/ Return

Spec == Init /\ [][Next]_vars

---------------------------------------------------------------------------
\* Vocabulary of the properties.

\* The run has left the probe (STEP 1-4) behind.
PastProbe == pc \in {"mkdir", "open", "write", "return", "done", "failed"}

\* Statements after the probe.
AfterProbeStmts == {"mkdir", "open", "write"}

ProbeSucceeded == touchRes = "none" /\ unlinkRes = "none"

ProbePermissionError ==
    touchRes = "PermissionError" \/ unlinkRes = "PermissionError"

\* The probe raised something that is not a PermissionError.
ProbeOtherError ==
    \/ touchRes \notin {"notrun", "none", "PermissionError"}
    \/ unlinkRes \notin {"notrun", "none", "PermissionError"}

\* Everything a run may create under root r: r itself, the five
\* subdirectories and config.txt.
TreeOf(r) == {r, config(r)} \cup {Join(r, n) : n \in NameSet}

\* The run has changed nothing in the set of paths S.
Untouched(S) ==
    /\ \A p \in S : fs[p] = start.fs[p]
    /\ \A p \in S \cap DOMAIN content : content[p] = start.content[p]

AllSubdirsAreDirs(base) == \A n \in NameSet : fs[Join(base, n)] = "dir"

IsPair(line) == Len(line) = 2

---------------------------------------------------------------------------
\* C1: when /data exists and the write probe succeeds (touch and unlink
\* both return), the run selects /data as base_path, and .write_test does
\* not exist in /data from then on to the end of the call.
C1_PrimarySelected ==
    (runs > 0 /\ start.fs[volume_path] # "absent" /\ ProbeSucceeded)
        => /\ PastProbe
           /\ base_path = volume_path
           /\ fs[test_file] = "absent"

C1_Witness ==
    /\ pc = "done"
    /\ ProbeSucceeded
    /\ base_path = volume_path
    /\ ~Exists(test_file)

\* C2: when /data does not exist, the run selects the fallback path as
\* base_path without calling touch or unlink, and goes on to directory
\* creation: it is past the probe, and any exception comes from a later
\* statement.
C2_AbsentPrimaryFallsBack ==
    (runs > 0 /\ start.fs[volume_path] = "absent")
        => /\ base_path = fallback_path
           /\ touchRes = "notrun"
           /\ unlinkRes = "notrun"
           /\ PastProbe
           /\ pc = "failed" => errorAt \in AfterProbeStmts

C2_Witness ==
    /\ pc = "done"
    /\ start.fs[volume_path] = "absent"
    /\ base_path = fallback_path
    /\ touchRes = "notrun"

\* C3: when /data exists and touch or unlink raises PermissionError, the
\* run selects the fallback path and goes on to directory creation; the
\* probe's exception does not leave setup_storage().
C3_PermissionErrorFallsBack ==
    (runs > 0 /\ ProbePermissionError)
        => /\ start.fs[volume_path] # "absent"
           /\ base_path = fallback_path
           /\ PastProbe
           /\ pc = "failed" => errorAt \in AfterProbeStmts

C3_Witness ==
    /\ pc = "done"
    /\ touchRes = "PermissionError"
    /\ base_path = fallback_path
    /\ AllSubdirsAreDirs(fallback_path)

\* C4: after a successful return the five subdirectories are directories
\* directly under base_path, config.txt is a file in base_path, its first
\* line is the base_path entry, each of the five paths is listed exactly
\* once under its name, and no other path is listed.
C4_DirectorySetComplete ==
    pc = "done" =>
        LET c == content[config(base_path)] IN
        /\ base_path \in Roots
        /\ AllSubdirsAreDirs(base_path)
        /\ fs[config(base_path)] = "file"
        /\ c[1] = <<"Storage Base", base_path>>
        /\ \A n \in NameSet :
              Cardinality({k \in 2..Len(c) : c[k] = <<n, Join(base_path, n)>>}) = 1
        /\ \A k \in 2..Len(c) :
              \/ ~IsPair(c[k])
              \/ c[k][1] = "Created"
              \/ \E n \in NameSet : c[k] = <<n, Join(base_path, n)>>

C4_Witness ==
    /\ pc = "done"
    /\ base_path = fallback_path
    /\ start.fs[fallback_path] = "absent"
    /\ AllSubdirsAreDirs(fallback_path)
    /\ Len(content[config(fallback_path)]) > 0

\* C5: a run that follows a successful run and meets no injected I/O fault
\* succeeds too (directories already there are no error); it selects the
\* same base_path, leaves every path as it found it, and changes no file
\* content but that of config.txt in base_path, whose lines equal the
\* earlier ones except possibly the second (the timestamp).
C5_Idempotent ==
    /\ (prev.pc = "done" /\ pc = "failed") => error = "OSError"
    /\ (prev.pc = "done" /\ pc = "done") =>
          LET cfg == config(base_path) IN
          /\ base_path = prev.base_path
          /\ \A p \in Paths : fs[p] = start.fs[p]
          /\ \A p \in DOMAIN content \ {cfg} : content[p] = start.content[p]
          /\ Len(content[cfg]) = Len(start.content[cfg])
          /\ \A k \in 1..Len(content[cfg]) :
                k # 2 => content[cfg][k] = start.content[cfg][k]

C5_Witness ==
    /\ prev.pc = "done"
    /\ pc = "done"
    /\ base_path = prev.base_path
    /\ content[config(base_path)][2] # start.content[config(base_path)][2]

\* C6: when touch or unlink raises anything but PermissionError, the call
\* ends with that exception, base_path is never assigned, and no
\* subdirectory, root or config.txt is created or changed.
C6_OtherProbeErrorFatal ==
    (runs > 0 /\ ProbeOtherError)
        => /\ pc = "failed"
           /\ errorAt \in {"touch", "unlink"}
           /\ error = (IF errorAt = "touch" THEN touchRes ELSE unlinkRes)
           /\ ~IsPermissionError(error)
           /\ base_path = NoPath
           /\ Untouched(TreeOf(volume_path) \cup TreeOf(fallback_path))

C6_Witness ==
    /\ pc = "failed"
    /\ touchRes = "NotADirectoryError"
    /\ fs[volume_path] = "file"
    /\ base_path = NoPath

\* C7: (a) when a mkdir of the loop raises, the call ends there with that
\* exception, base_path stays the root selected, config.txt is neither
\* created nor changed, the subdirectories before the failing one are
\* directories (no rollback) and those after it are as the run found them;
\* (b) config.txt is opened only once all five subdirectories exist.
C7_MkdirErrorFatal ==
    /\ (pc = "failed" /\ errorAt = "mkdir") =>
          /\ error # "none"
          /\ base_path \in Roots
          /\ i \in 1..Len(Names)
          /\ fs[Join(base_path, Names[i])] # "dir"
          /\ Untouched({config(r) : r \in Roots})
          /\ \A k \in 1..(i - 1) : fs[Join(base_path, Names[k])] = "dir"
          /\ \A k \in (i + 1)..Len(Names) :
                fs[Join(base_path, Names[k])] = start.fs[Join(base_path, Names[k])]
    /\ (\/ pc \in {"open", "write", "return", "done"}
        \/ (runs > 0 /\ ~Untouched({config(r) : r \in Roots})))
          => AllSubdirsAreDirs(base_path)

C7_Witness ==
    /\ pc = "failed"
    /\ errorAt = "mkdir"
    /\ touchRes = "PermissionError"
    /\ base_path = fallback_path
    /\ i > 1
    /\ start.fs[Join(fallback_path, Names[1])] = "absent"
    /\ fs[Join(fallback_path, Names[1])] = "dir"

\* C8: after a run that failed, config.txt in each root is absent or holds
\* a complete manifest (of this run or of an earlier one), never a
\* truncated one.
C8_NoPartialManifest ==
    pc = "failed" =>
        \A r \in Roots :
            \/ fs[config(r)] = "absent"
            \/ \E t \in 0..MaxClock : content[config(r)] = Manifest(r, t)

\* C9: a run past the probe has exactly one base_path, one of the two
\* roots; nothing in the tree of the other root (the root itself, its
\* subdirectories, its config.txt) is created or changed by the run, and
\* while no root is selected neither tree is changed.
C9_OnlySelectedRootMutated ==
    runs > 0 =>
        /\ pc \in {"mkdir", "open", "write", "return", "done"}
              => base_path \in Roots
        /\ base_path = volume_path => Untouched(TreeOf(fallback_path))
        /\ base_path = fallback_path => Untouched(TreeOf(volume_path))
        /\ base_path = NoPath
              => Untouched(TreeOf(volume_path) \cup TreeOf(fallback_path))

C9_Witness ==
    /\ pc = "done"
    /\ base_path = volume_path
    /\ start.fs[Join(volume_path, Names[1])] = "absent"
    /\ AllSubdirsAreDirs(volume_path)
    /\ fs[fallback_path] = "absent"

\* C10 as stated: the manifest of a successful run is the base_path line,
\* the timestamp line, then the five directory lines and nothing else,
\* every line a (label, value) pair.
C10_SevenPairLines ==
    pc = "done" =>
        LET c == content[config(base_path)] IN
        /\ Len(c) = 2 + Len(Names)
        /\ \A k \in 1..Len(c) : IsPair(c[k])
        /\ c[1] = <<"Storage Base", base_path>>
        /\ c[2][1] = "Created"
        /\ \A k \in 1..Len(Names) :
              c[2 + k] = <<Names[k], Join(base_path, Names[k])>>

\* C10 amended: the manifest of a successful run is the base_path line,
\* the timestamp line, one empty line, then the five directory lines in
\* the order app_data, uploads, logs, cache, agent_memory, and nothing
\* else; every line but the empty third is a (label, value) pair.
C10_ManifestLayout ==
    pc = "done" =>
        LET c == content[config(base_path)] IN
        /\ Len(c) = 3 + Len(Names)
        /\ \A k \in 1..Len(c) : k # 3 => IsPair(c[k])
        /\ c[1] = <<"Storage Base", base_path>>
        /\ c[2][1] = "Created"
        /\ \E t \in 0..MaxClock : c[2][2] = strftime(t)
        /\ c[3] = <<>>
        /\ \A k \in 1..Len(Names) :
              c[3 + k] = <<Names[k], Join(base_path, Names[k])>>
        /\ <<c[4][1], c[5][1], c[6][1], c[7][1], c[8][1]>>
              = <<"app_data", "uploads", "logs", "cache", "agent_memory">>

C10_Witness ==
    /\ pc = "done"
    /\ Len(content[config(base_path)]) = 8
    /\ content[config(base_path)][3] = <<>>
    /\ content[config(base_path)][8][1] = "agent_memory"


\* C11: after every run, however it ended, no .write_test created by the
\* probe is left in /data, and the run called touch at most once and unlink
\* at most once.
C11_ProbeTransient ==
    (runs > 0 /\ pc \in {"done", "failed"}) =>
        /\ ~(Exists(test_file) /\ createdByProbe)
        /\ touches <= 1
        /\ unlinks <= 1

============================================================================
